---- MODULE Spec2Model ----
(***************************************************************************)
(* Model of notebooks/03_Hybrid_Search_and_Retrieval.ipynb: the cells of   *)
(* the notebook run top to bottom (connect, check the search pipeline,     *)
(* embed the query and run hybrid_search, pull the generation model and    *)
(* build the prompt, stream the answer).                                   *)
(*                                                                         *)
(* A Python string is a sequence of tokens (each token a fragment of       *)
(* characters); string concatenation is sequence concatenation.  The       *)
(* search engine, the embedding model and the generation provider are      *)
(* external: every outcome they can produce is a nondeterministic choice.  *)
(***************************************************************************)
EXTENDS Integers, Sequences, FiniteSets, TLC

VARIABLES
    pc,              \* the cell (or the call inside it) that runs next
    printed,         \* what the cells have printed so far, one tag per print
    raised,          \* the exception that ended the run, "none" while it runs
    failed_in,       \* the cell whose exception ended the run
    pipeline_check,  \* what the pipeline-existence cell found
    query,           \* the query string
    query_embedding, \* its embedding vector
    top_k,           \* number of results asked for
    query_body,      \* hybrid_search's local query_body
    calls,           \* the client.search calls hybrid_search has made
    caught,          \* the exception hybrid_search's handler caught
    attempt,         \* the transport's retry counter inside the call in progress
    wire,            \* requests the hybrid_search in progress has transmitted
    hs_response,     \* hybrid_search's local response
    hs_returned,     \* hybrid_search has returned
    results,         \* the hit list hybrid_search returned
    pull_outcome,    \* how ollama.pull ended
    context,         \* generate_response_with_ollama's local context
    prompt,          \* the prompt it returned
    model_name,      \* the model name it returned
    last_call,       \* the latest generate_response_with_ollama invocation
    prev_call,       \* the one before it
    gen_request,     \* the request given to ollama.generate
    stream,          \* the chunks the provider produces for that request
    received,        \* how many of them the loop has consumed
    response         \* the accumulated answer

vars == <<pc, printed, raised, failed_in, pipeline_check,
          query, query_embedding, top_k, query_body, calls, caught, attempt,
          wire, hs_response, hs_returned, results, pull_outcome, context, prompt,
          model_name, last_call, prev_call, gen_request, stream, received,
          response>>

searchVars == <<query, query_embedding, top_k, query_body, calls, caught,
                attempt, wire, hs_response, hs_returned, results>>
promptVars == <<context, prompt, model_name, last_call, prev_call>>
streamVars == <<gen_request, stream, received, response>>

---------------------------------------------------------------------------
(* Bounds of the model *)

\* longest hit list the engine returns
MaxHits == 2
\* longest chunk stream the provider produces
MaxChunks == 2

---------------------------------------------------------------------------
(* Configuration *)

\* OpenSearch(..., max_retries=3, retry_on_timeout=True)
max_retries == 3
retry_on_timeout == TRUE
\* imported from src.constants
OPENSEARCH_INDEX == "documents"
OLLAMA_MODEL_NAME == "llama3.2:1b"
pipeline_name == "nlp-search-pipeline"

---------------------------------------------------------------------------
(* Input domains *)

\* the sample query and another question
Queries == { <<"ice", " loss">>, <<"sea", " level", "?">> }
Vectors == { <<1, 0>>, <<0, 1>> }
\* 3 in the query cell, and the smallest count
TopKs == {1, 3}
\* stored texts: plain, empty, and one that quotes a label of its own
Texts == { <<"Gt">>, <<>>, <<"Document ", "1", ":", "\n", "km2">> }
Hits == [_score : {7}, _source : [text : Texts, document_name : {"climate"}]]

RECURSIVE SeqsUpTo(_, _)
SeqsUpTo(S, n) ==
    IF n = 0 THEN { <<>> }
    ELSE LET shorter == SeqsUpTo(S, n - 1)
         IN  shorter \cup { Append(s, x) : s \in { t \in shorter : Len(t) = n - 1 }, x \in S }

Min(a, b) == IF a < b THEN a ELSE b

\* the engine returns at most `size` hits
HitLists(size) == SeqsUpTo(Hits, Min(size, MaxHits))

Pieces == { <<>>, <<"8 Gt">>, <<" yr", "-1">> }
Chunks == [response : Pieces]
ChunkStreams == SeqsUpTo(Chunks, MaxChunks)

NoCall == [query |-> <<>>, results |-> <<>>, prompt |-> <<>>, valid |-> FALSE]

---------------------------------------------------------------------------
(* hybrid_search *)

\* the request parameters of the first and of the fallback client.search
PipelineParams == { <<"search_pipeline", "nlp-search-pipeline">> }
NoParams == {}

\* the two clauses swapped, and the default size in place of k
QueryBodyKnnFirst(query_text, embedding, k) ==
    [_source |-> [exclude |-> <<"embedding">>],
     query   |-> [hybrid |-> [queries |->
                    << [knn |-> [embedding |-> [vector |-> embedding, k |-> k]]],
                       [match |-> [text |-> [query |-> query_text]]] >>]],
     size    |-> 5]

QueryBody(query_text, embedding, k) ==
    [_source |-> [exclude |-> <<"embedding">>],
     query   |-> [hybrid |-> [queries |->
                    << [match |-> [text |-> [query |-> query_text]]],
                       [knn |-> [embedding |-> [vector |-> embedding, k |-> k]]] >>]],
     size    |-> k]

FirstSearchCall(body) ==
    [index |-> OPENSEARCH_INDEX, body |-> body, params |-> PipelineParams]

\* the fallback keeps the pipeline parameter
FallbackKeepsPipeline(body) ==
    [index |-> OPENSEARCH_INDEX, body |-> body, params |-> PipelineParams]

FallbackSearchCall(body) ==
    [index |-> OPENSEARCH_INDEX, body |-> body, params |-> NoParams]

\* except Exception in place of except TypeError
CatchesException(exc) == TRUE

\* except TypeError: the only handler, around the first call
Catches(exc) == exc = "TypeError"

\* the fallback retried in a loop of its own
FallbackRetriesTypeError(exc) == exc = "TypeError"

\* the fallback call stands in the handler, inside no try of its own
FallbackCatches(exc) == FALSE

\* return response["hits"]["hits"]
HitsOf(resp) == resp.hits.hits

\* The transport of the client re-sends a request that failed with a
\* connection error, with a timeout when retry_on_timeout is set, or with a
\* gateway status; any other error is raised at once.
TransportErrors == {"ConnectionError", "ConnectionTimeout", "TransportError503",
                    "RequestError", "NotFoundError"}
Retryable(exc) ==
    \/ exc = "ConnectionError"
    \/ exc = "ConnectionTimeout" /\ retry_on_timeout
    \/ exc = "TransportError503"

---------------------------------------------------------------------------
(* generate_response_with_ollama *)

\* context kept from the call before
ContextOfLastCall == context

\* context = ""
InitialContext == <<>>

\* the label numbered i in place of i + 1
DocumentBlockFromZero(i, result) ==
    <<"Document ", ToString(i), ":", "\n">> \o result._source.text \o <<"\n", "\n">>

\* f"Document {i + 1}:\n{result['_source']['text']}\n\n", i counted from 0
DocumentBlock(i, result) ==
    <<"Document ", ToString(i + 1), ":", "\n">> \o result._source.text \o <<"\n", "\n">>

\* for i, result in enumerate(results): context += ...
RECURSIVE FormatContext(_, _, _)
FormatContext(ctx, res, i) ==
    IF i >= Len(res) THEN ctx
    ELSE FormatContext(ctx \o DocumentBlock(i, res[i + 1]), res, i + 1)

Instruction ==
    <<"You are a helpful AI assistant. Use the following context to answer the question.", "\n",
      "If you cannot find the answer in the context, say so.", "\n", "\n">>

\* the context written where the question belongs
PromptTemplateWithoutQuery(ctx, q) ==
    Instruction \o <<"Context:", "\n">> \o ctx \o <<"\n", "\n", "Question: ">> \o ctx
        \o <<"\n", "\n", "Answer: ">>

PromptTemplate(ctx, q) ==
    Instruction \o <<"Context:", "\n">> \o ctx \o <<"\n", "\n", "Question: ">> \o q
        \o <<"\n", "\n", "Answer: ">>

generate_response_with_ollama(q, res) ==
    LET ctx == FormatContext(InitialContext, res, 0)
    IN  [context |-> ctx, prompt |-> PromptTemplate(ctx, q), model_name |-> OLLAMA_MODEL_NAME]

\* response = piece + response
AccumulateInFront(acc, piece) == piece \o acc

\* response += piece
Accumulate(acc, piece) == acc \o piece

---------------------------------------------------------------------------
Init ==
    /\ pc = "connect"
    /\ printed = <<>>
    /\ raised = "none"
    /\ failed_in = "none"
    /\ pipeline_check = "none"
    /\ query = <<>>
    /\ query_embedding = <<>>
    /\ top_k = 0
    /\ query_body = QueryBody(<<>>, <<>>, 0)
    /\ calls = <<>>
    /\ caught = "none"
    /\ attempt = 0
    /\ wire = 0
    /\ hs_response = [hits |-> [hits |-> <<>>]]
    /\ hs_returned = FALSE
    /\ results = <<>>
    /\ pull_outcome = "none"
    /\ context = <<>>
    /\ prompt = <<>>
    /\ model_name = ""
    /\ last_call = NoCall
    /\ prev_call = NoCall
    /\ gen_request = [model |-> "", prompt |-> <<>>, stream |-> FALSE]
    /\ stream = <<>>
    /\ received = 0
    /\ response = <<>>

\* an exception no handler catches ends the run
Uncaught(cell, exc) ==
    /\ pc' = "failed"
    /\ raised' = exc
    /\ failed_in' = cell

\* cell: try: info = client.info() ... except Exception: print; print; raise
ConnectOk ==
    /\ pc = "connect"
    /\ pc' = "check_pipeline"
    /\ printed' = Append(printed, "connected")
    /\ UNCHANGED <<raised, failed_in, pipeline_check>>
    /\ UNCHANGED <<searchVars, pull_outcome, promptVars, streamVars>>

ConnectFails ==
    /\ pc = "connect"
    /\ \E exc \in {"ConnectionError", "ConnectionTimeout"} : Uncaught("connect", exc)
    /\ printed' = printed \o <<"connect_failed", "connect_hint">>
    /\ UNCHANGED pipeline_check
    /\ UNCHANGED <<searchVars, pull_outcome, promptVars, streamVars>>

\* cell: GET /_search/pipeline/nlp-search-pipeline
\* except NotFoundError / except Exception: both print and go on
\* the NotFoundError handler left out
PipelineCheckMissesNotFound(exc) == exc # "NotFoundError"

PipelineCheckCatches(exc) == TRUE

CheckPipeline ==
    /\ pc = "check_pipeline"
    /\ \E outcome \in {"exists", "NotFoundError", "ConnectionError"} :
          /\ pipeline_check' = outcome
          /\ IF outcome = "exists"
             THEN /\ printed' = Append(printed, "pipeline_exists")
                  /\ pc' = "query"
                  /\ UNCHANGED <<raised, failed_in>>
             ELSE IF PipelineCheckCatches(outcome)
             THEN /\ printed' = printed \o
                        (IF outcome = "NotFoundError"
                         THEN <<"pipeline_missing", "pipeline_required">>
                         ELSE <<"pipeline_error">>)
                  /\ pc' = "query"
                  /\ UNCHANGED <<raised, failed_in>>
             ELSE /\ printed' = printed
                  /\ Uncaught("check_pipeline", outcome)
    /\ UNCHANGED <<searchVars, pull_outcome, promptVars, streamVars>>

\* cell: query, embedding, top_k; hybrid_search builds query_body and makes
\* its first client.search call
QueryCell ==
    /\ pc = "query"
    /\ \E q \in Queries, v \in Vectors, k \in TopKs :
          /\ query' = q
          /\ query_embedding' = v
          /\ top_k' = k
          /\ query_body' = QueryBody(q, v, k)
          /\ calls' = <<FirstSearchCall(QueryBody(q, v, k))>>
    /\ attempt' = 0
    /\ pc' = "search_first"
    /\ printed' = printed \o <<"query", "embedding", "retrieving", "executing">>
    /\ UNCHANGED <<raised, failed_in, pipeline_check>>
    /\ UNCHANGED <<caught, wire, hs_response, hs_returned, results>>
    /\ UNCHANGED <<pull_outcome, promptVars, streamVars>>

\* client.search raised exc: the first call's TypeError handler makes the
\* fallback call, anything else leaves hybrid_search
SearchRaises(exc) ==
    IF pc = "search_first" /\ Catches(exc)
    THEN /\ calls' = Append(calls, FallbackSearchCall(query_body))
         /\ caught' = exc
         /\ attempt' = 0
         /\ pc' = "search_fallback"
         /\ printed' = Append(printed, "fallback_warning")
         /\ UNCHANGED <<raised, failed_in>>
    ELSE IF pc = "search_fallback" /\ FallbackCatches(exc)
    THEN /\ calls' = Append(calls, FallbackSearchCall(query_body))
         /\ caught' = exc
         /\ attempt' = 0
         /\ pc' = "search_fallback"
         /\ printed' = printed
         /\ UNCHANGED <<raised, failed_in>>
    ELSE /\ Uncaught("hybrid_search", exc)
         /\ UNCHANGED <<calls, caught, attempt, printed>>

\* a TypeError comes out of client.search (a client that does not take the
\* params argument raises it before anything is sent)
SearchTypeError ==
    /\ pc \in {"search_first", "search_fallback"}
    /\ SearchRaises("TypeError")
    /\ UNCHANGED pipeline_check
    /\ UNCHANGED <<query, query_embedding, top_k, query_body, wire, hs_response,
                   hs_returned, results>>
    /\ UNCHANGED <<pull_outcome, promptVars, streamVars>>

\* the request is transmitted and fails; the transport re-sends it or raises
TransportFails ==
    /\ pc \in {"search_first", "search_fallback"}
    /\ wire' = wire + 1
    /\ \E exc \in TransportErrors :
          IF Retryable(exc) /\ attempt < max_retries
          THEN /\ attempt' = attempt + 1
               /\ UNCHANGED <<pc, calls, caught, printed, raised, failed_in>>
          ELSE SearchRaises(exc)
    /\ UNCHANGED pipeline_check
    /\ UNCHANGED <<query, query_embedding, top_k, query_body, hs_response,
                   hs_returned, results>>
    /\ UNCHANGED <<pull_outcome, promptVars, streamVars>>

\* the request is transmitted and answered; hybrid_search returns the hits
\* and the cell displays them
TransportResponds ==
    /\ pc \in {"search_first", "search_fallback"}
    /\ \E hits \in HitLists(query_body.size) :
          /\ hs_response' = [hits |-> [hits |-> hits]]
          /\ results' = HitsOf([hits |-> [hits |-> hits]])
    /\ hs_returned' = TRUE
    /\ attempt' = 0
    /\ wire' = 0
    /\ pc' = "pull"
    /\ printed' = Append(printed, "search_results")
    /\ UNCHANGED <<raised, failed_in, pipeline_check>>
    /\ UNCHANGED <<query, query_embedding, top_k, query_body, calls, caught>>
    /\ UNCHANGED <<pull_outcome, promptVars, streamVars>>

\* cell: try: ollama.pull(...) except ollama.ResponseError: print; print
\* then prompt, model_name = generate_response_with_ollama(query, results)
\* no handler around ollama.pull
PullCatchesNothing(exc) == FALSE

PullCatches(exc) == exc = "ResponseError"

Invoke(q, res) ==
    LET r == generate_response_with_ollama(q, res)
    IN  /\ context' = r.context
        /\ prompt' = r.prompt
        /\ model_name' = r.model_name
        /\ prev_call' = last_call
        /\ last_call' = [query |-> q, results |-> res, prompt |-> r.prompt, valid |-> TRUE]

PullCell ==
    /\ pc = "pull"
    /\ \E outcome \in {"ok", "ResponseError", "ConnectionError"} :
          /\ pull_outcome' = outcome
          /\ IF outcome = "ok" \/ PullCatches(outcome)
             THEN /\ printed' = printed \o
                        (IF outcome = "ok" THEN <<"ensuring", "pull_ready">>
                         ELSE <<"ensuring", "pull_error", "pull_hint">>)
                  /\ Invoke(query, results)
                  /\ pc' = "generate"
                  /\ UNCHANGED <<raised, failed_in>>
             ELSE /\ printed' = Append(printed, "ensuring")
                  /\ Uncaught("pull", outcome)
                  /\ UNCHANGED promptVars
    /\ UNCHANGED <<pipeline_check, searchVars, streamVars>>

\* cell: prints, response = "", and the request to ollama.generate
GenerateCell ==
    /\ pc = "generate"
    /\ printed' = printed \o <<"prompt_length", "prompt_head", "generating", "response_header">>
    /\ response' = <<>>
    /\ gen_request' = [model |-> model_name, prompt |-> prompt, stream |-> TRUE]
    /\ received' = 0
    /\ \E s \in ChunkStreams : stream' = s
    /\ pc' = "stream"
    /\ UNCHANGED <<raised, failed_in, pipeline_check>>
    /\ UNCHANGED <<searchVars, pull_outcome, promptVars>>

\* for chunk in ...: piece = chunk['response']; print(piece); response += piece
StreamChunk ==
    /\ pc = "stream"
    /\ received < Len(stream)
    /\ response' = Accumulate(response, stream[received + 1].response)
    /\ received' = received + 1
    /\ printed' = Append(printed, "piece")
    /\ UNCHANGED <<pc, raised, failed_in, pipeline_check>>
    /\ UNCHANGED <<searchVars, pull_outcome, promptVars, gen_request, stream>>

\* the provider ends the stream with an error, raised out of the loop
StreamError ==
    /\ pc = "stream"
    /\ Uncaught("generate", "ResponseError")
    /\ UNCHANGED <<printed, pipeline_check>>
    /\ UNCHANGED <<searchVars, pull_outcome, promptVars, streamVars>>

\* the stream is exhausted: the two closing prints
StreamEnd ==
    /\ pc = "stream"
    /\ received = Len(stream)
    /\ printed' = printed \o <<"complete", "generated_length">>
    /\ pc' = "done"
    /\ UNCHANGED <<raised, failed_in, pipeline_check>>
    /\ UNCHANGED <<searchVars, pull_outcome, promptVars, streamVars>>

Next ==
    \/ ConnectOk
    \/ ConnectFails
    \/ CheckPipeline
    \/ QueryCell
    \/ SearchTypeError
    \/ TransportFails
    \/ TransportResponds
    \/ PullCell
    \/ GenerateCell
    \/ StreamChunk
    \/ StreamError
    \/ StreamEnd

Spec == Init /\ [][Next]_vars

---------------------------------------------------------------------------
(* generate_response_with_ollama on its own: called again and again, with  *)
(* any question and any hit list.                                          *)

PromptInit == Init

CallGenerateResponse ==
    /\ \E q \in Queries, res \in SeqsUpTo(Hits, MaxHits) :
          /\ query' = q
          /\ results' = res
          /\ Invoke(q, res)
    /\ UNCHANGED <<pc, printed, raised, failed_in, pipeline_check>>
    /\ UNCHANGED <<query_embedding, top_k, query_body, calls, caught, attempt,
                   wire, hs_response, hs_returned>>
    /\ UNCHANGED <<pull_outcome, streamVars>>

PromptNext == CallGenerateResponse

PromptSpec == PromptInit /\ [][PromptNext]_vars

---------------------------------------------------------------------------
(* Properties of the notebook run (Spec) *)

Has(seq, x) == \E i \in 1..Len(seq) : seq[i] = x

InSearch == pc \in {"search_first", "search_fallback"}

\* C1: once the first search call (the one with the search_pipeline
\* parameter) has raised TypeError, hybrid_search has made exactly one
\* further search call, with the same index, the same body and no request
\* parameter, and what it returns is the hit list of the response to that
\* call, unchanged.
C1_FallbackReissuesSameBody ==
    caught = "TypeError" =>
        /\ Len(calls) = 2
        /\ calls[1].params = PipelineParams
        /\ calls[2].index = calls[1].index
        /\ calls[2].body = calls[1].body
        /\ calls[2].body = query_body
        /\ calls[2].params = {}
        /\ hs_returned => results = hs_response.hits.hits

C1_Witness ==
    /\ caught = "TypeError"
    /\ hs_returned
    /\ Len(results) = 2
    /\ results[1] # results[2]

\* C2 as stated: per invocation of hybrid_search the search request is
\* submitted to the engine at most twice, and nothing failed is sent again.
C2_AtMostTwoSubmissions ==
    /\ Len(calls) <= 2
    /\ wire <= 2

\* C2 amended: hybrid_search makes at most two client.search calls (the
\* first and the one fallback) and an error of the fallback call leaves
\* hybrid_search; inside one call the client, built with max_retries=3 and
\* retry_on_timeout=True, sends a failed request again up to 3 times.
C2_TwoCallsEachRetriedByClient ==
    /\ Len(calls) <= 2
    /\ caught \in {"none", "TypeError"}
    /\ Len(calls) = 2 <=> caught # "none"
    /\ attempt <= max_retries
    /\ wire <= Len(calls) * (1 + max_retries)
    /\ (failed_in = "hybrid_search" /\ caught # "none") =>
           pc = "failed" /\ raised # "none" /\ ~hs_returned /\ Len(calls) = 2

C2_Witness ==
    /\ pc = "failed"
    /\ failed_in = "hybrid_search"
    /\ caught = "TypeError"
    /\ raised = "ConnectionTimeout"
    /\ attempt = max_retries
    /\ wire >= 1 + max_retries

\* C3 as stated: after the check found the pipeline missing, a later
\* hybrid_search runs to completion and returns hits, never ending in an
\* error.
C3_SearchSucceedsWithoutPipeline ==
    pipeline_check = "NotFoundError" =>
        /\ Has(printed, "pipeline_missing")
        /\ failed_in \notin {"check_pipeline", "hybrid_search"}

\* C3 amended: a missing pipeline is reported and does not end the run: the
\* warning is printed, the next cells run, and hybrid_search still sends its
\* first request with the search_pipeline parameter; it returns the hits of
\* the engine's response when there is one, and an error of the engine
\* leaves hybrid_search as any other does.
C3_MissingPipelineNotFatal ==
    pipeline_check = "NotFoundError" =>
        /\ Has(printed, "pipeline_missing")
        /\ failed_in # "check_pipeline"
        /\ pc # "check_pipeline"
        /\ pc = "query" => ENABLED QueryCell
        /\ Len(calls) >= 1 => calls[1].params = PipelineParams
        /\ hs_returned => results = hs_response.hits.hits
        /\ (~hs_returned /\ Len(calls) >= 1 /\ ~InSearch) =>
               pc = "failed" /\ failed_in = "hybrid_search"

C3_Witness ==
    /\ pipeline_check = "NotFoundError"
    /\ hs_returned
    /\ caught = "none"
    /\ Len(results) = 2
    /\ pc = "done"

\* C4: a failure of client.info() is raised again and nothing after the
\* connection check runs; an error of a search call other than the first
\* call's TypeError leaves hybrid_search, with no further search call and
\* no hit list returned.
C4_ConnectionFailureIsFatal ==
    /\ failed_in = "connect" =>
           /\ pc = "failed"
           /\ raised \in {"ConnectionError", "ConnectionTimeout"}
           /\ printed = <<"connect_failed", "connect_hint">>
           /\ pipeline_check = "none"
           /\ calls = <<>>
           /\ ~last_call.valid
    /\ failed_in = "hybrid_search" =>
           /\ pc = "failed"
           /\ raised # "none"
           /\ ~hs_returned
           /\ results = <<>>
           /\ pull_outcome = "none"
           /\ caught = "none" => Len(calls) = 1 /\ raised # "TypeError"
           /\ caught # "none" => Len(calls) = 2 /\ caught = "TypeError"
    /\ caught \in {"none", "TypeError"}

C4_Witness ==
    /\ pc = "failed"
    /\ failed_in = "hybrid_search"
    /\ raised = "ConnectionError"
    /\ caught = "none"
    /\ Len(calls) = 1

\* C5: the body hybrid_search builds has exactly two clauses under
\* query.hybrid.queries, first the match on "text" with the query string,
\* then the knn on "embedding" with the given vector; it excludes
\* "embedding" from the sources and sets the knn k and the size to top_k;
\* the first submission carries the pipeline as a request parameter.
C5_QueryBodyShape ==
    Len(calls) >= 1 =>
        LET body == calls[1].body
            clauses == body.query.hybrid.queries
        IN  /\ body = query_body
            /\ DOMAIN body = {"_source", "query", "size"}
            /\ Len(clauses) = 2
            /\ DOMAIN clauses[1] = {"match"}
            /\ DOMAIN clauses[1].match = {"text"}
            /\ clauses[1].match.text.query = query
            /\ DOMAIN clauses[2] = {"knn"}
            /\ DOMAIN clauses[2].knn = {"embedding"}
            /\ clauses[2].knn.embedding.vector = query_embedding
            /\ clauses[2].knn.embedding.k = top_k
            /\ body.size = top_k
            /\ body._source.exclude = <<"embedding">>
            /\ calls[1].params = { <<"search_pipeline", pipeline_name>> }
            /\ calls[1].index = OPENSEARCH_INDEX

C5_Witness ==
    /\ Len(calls) >= 1
    /\ top_k = 1
    /\ query_embedding = <<0, 1>>
    /\ query = <<"sea", " level", "?">>

RECURSIVE ConcatFirst(_, _)
\* the text of the first n chunks of s, in order
ConcatFirst(s, n) ==
    IF n = 0 THEN <<>> ELSE ConcatFirst(s, n - 1) \o s[n].response

\* C8: after every chunk the accumulated response is the text of the chunks
\* received so far, in arrival order; when the stream is complete it is the
\* whole completion the provider produced for the request.
C8_ResponseIsChunksInOrder ==
    /\ (pc \in {"stream", "done"} \/ failed_in = "generate") =>
           /\ received <= Len(stream)
           /\ response = ConcatFirst(stream, received)
    /\ pc = "done" =>
           /\ received = Len(stream)
           /\ response = ConcatFirst(stream, Len(stream))

C8_Witness ==
    /\ pc = "done"
    /\ received = 2
    /\ stream[1].response # <<>>
    /\ stream[2].response # <<>>
    /\ stream[1] # stream[2]

\* C10: a ResponseError of ollama.pull is reported and does not end the
\* run: the prompt is still built from the query and the results, and the
\* generation request is issued with that prompt and that model name.
C10_PullErrorNotFatal ==
    pull_outcome = "ResponseError" =>
        /\ Has(printed, "pull_error")
        /\ failed_in # "pull"
        /\ pc # "pull"
        /\ last_call.valid
        /\ last_call.query = query
        /\ last_call.results = results
        /\ prompt = last_call.prompt
        /\ model_name = OLLAMA_MODEL_NAME
        /\ pc = "generate" => ENABLED GenerateCell
        /\ pc # "generate" =>
               gen_request = [model |-> model_name, prompt |-> prompt, stream |-> TRUE]

C10_Witness ==
    /\ pull_outcome = "ResponseError"
    /\ pc = "stream"
    /\ Len(results) = 2
    /\ gen_request.prompt = prompt

---------------------------------------------------------------------------
(* Properties of generate_response_with_ollama (PromptSpec) *)

NumberTokens == { ToString(n) : n \in 0..9 }

\* a label "Document <number>:" starts at position p of s
IsLabelAt(s, p) ==
    /\ p + 2 <= Len(s)
    /\ s[p] = "Document "
    /\ s[p + 1] \in NumberTokens
    /\ s[p + 2] = ":"

LabelPositions(s) == { p \in 1..Len(s) : IsLabelAt(s, p) }
CountLabels(s) == Cardinality(LabelPositions(s))

\* the p-th smallest element of a set of positions
RECURSIVE NthOf(_, _)
NthOf(S, n) ==
    LET m == CHOOSE x \in S : \A y \in S : x <= y
    IN  IF n = 1 THEN m ELSE NthOf(S \ {m}, n - 1)

RECURSIVE SumLabels(_, _)
\* labels quoted inside the texts of the first n hits
SumLabels(res, n) ==
    IF n = 0 THEN 0 ELSE SumLabels(res, n - 1) + CountLabels(res[n]._source.text)

RECURSIVE BlockStart(_, _)
\* where the block of the i-th hit starts in the prompt
BlockStart(res, i) ==
    IF i = 1 THEN Len(Instruction) + 3
    ELSE BlockStart(res, i - 1) + 6 + Len(res[i - 1]._source.text)

Slice(s, from, n) == SubSeq(s, from, from + n - 1)

QuestionPart(q) == <<"\n", "\n", "Question: ">> \o q \o <<"\n", "\n", "Answer: ">>

\* C6 as stated: the prompt holds exactly N labels, numbered 1..N in order,
\* the i-th one followed at once by the text of the i-th hit.
C6_ExactlyNLabels ==
    last_call.valid =>
        LET p == last_call.prompt
            res == last_call.results
            at == LabelPositions(p)
        IN  /\ Cardinality(at) = Len(res)
            /\ \A i \in 1..Len(res) :
                   LET pos == NthOf(at, i)
                       text == res[i]._source.text
                   IN  /\ p[pos + 1] = ToString(i)
                       /\ Slice(p, pos + 3, 1 + Len(text)) = <<"\n">> \o text

\* C6 amended: the builder writes exactly N blocks, one per hit and in the
\* order of the hit list, the i-th being the label "Document i:", a line
\* break, the whole text of the i-th hit and two line breaks, and the
\* question follows the last block; a hit text (or the question) is copied as
\* it is, so the labels found in the prompt are these N and those the texts
\* and the question already contain.
C6_OneBlockPerHitInOrder ==
    last_call.valid =>
        LET p == last_call.prompt
            q == last_call.query
            res == last_call.results
            N == Len(res)
        IN  /\ \A i \in 1..N :
                   LET from == BlockStart(res, i)
                       text == res[i]._source.text
                   IN  /\ Slice(p, from, 4) = <<"Document ", ToString(i), ":", "\n">>
                       /\ Slice(p, from + 4, Len(text)) = text
                       /\ Slice(p, from + 4 + Len(text), 2) = <<"\n", "\n">>
            /\ SubSeq(p, BlockStart(res, N + 1), Len(p)) = QuestionPart(q)
            /\ CountLabels(p) = N + SumLabels(res, N) + CountLabels(q)
            /\ (SumLabels(res, N) = 0 /\ CountLabels(q) = 0) => CountLabels(p) = N

C6_Witness ==
    /\ last_call.valid
    /\ Len(last_call.results) = 2
    /\ CountLabels(last_call.results[1]._source.text) = 1
    /\ last_call.results[2]._source.text = <<"Gt">>
    /\ CountLabels(last_call.prompt) = 3

\* the first place at or after `from` where pat occurs in s (0: nowhere)
FirstAt(s, pat, from) ==
    LET at == { i \in from..(Len(s) - Len(pat) + 1) : Slice(s, i, Len(pat)) = pat }
    IN  IF at = {} THEN 0 ELSE CHOOSE i \in at : \A j \in at : i <= j

\* what stands between the "Context:" line and the question
ContextSection(p) ==
    LET from == Len(Instruction) + 3
        to == FirstAt(p, <<"\n", "\n", "Question: ">>, from)
    IN  SubSeq(p, from, to - 1)

\* C7: with no hit the call returns a prompt whose context section is empty
\* (no Document block), that starts with the instruction and holds the
\* question as given.
C7_ZeroHitsEmptyContext ==
    (last_call.valid /\ last_call.results = <<>>) =>
        LET p == last_call.prompt
            q == last_call.query
            head == Instruction \o <<"Context:", "\n">>
        IN  /\ Len(p) = Len(head) + 3 + Len(q) + 3
            /\ Slice(p, 1, Len(head)) = head
            /\ FirstAt(p, <<"\n", "\n", "Question: ">>, Len(head) + 1) = Len(head) + 1
            /\ ContextSection(p) = <<>>
            /\ context = <<>>
            /\ Slice(p, Len(head) + 4, Len(q)) = q
            /\ SubSeq(p, Len(head) + 4 + Len(q), Len(p)) = <<"\n", "\n", "Answer: ">>

C7_Witness ==
    /\ last_call.valid
    /\ last_call.results = <<>>
    /\ last_call.query = <<"ice", " loss">>
    /\ prev_call.valid
    /\ prev_call.results # <<>>

\* C9: two calls with the same question and the same hit list return the
\* same prompt, whatever was called before.
C9_SameInputsSamePrompt ==
    (prev_call.valid /\ last_call.valid
        /\ prev_call.query = last_call.query
        /\ prev_call.results = last_call.results) =>
            prev_call.prompt = last_call.prompt

C9_Witness ==
    /\ prev_call.valid
    /\ last_call.valid
    /\ prev_call.query = last_call.query
    /\ prev_call.results = last_call.results
    /\ Len(last_call.results) = 2
====
